---- MODULE Spec2Model ----
(***************************************************************************)
(* Model of wifi_qos_gui.py: a Tk program that binds an AF_UNIX datagram   *)
(* socket at SOCK_PATH, polls it once per timer tick without blocking,     *)
(* decodes 24-byte telemetry records and shows the last one in a Label.    *)
(*                                                                         *)
(* Several instances of the program (processes started on the same         *)
(* SOCK_PATH) share one filesystem path; a producer sends datagrams to     *)
(* that path.  Time is not modelled: a pending root.after timer may fire   *)
(* at any later step, whatever POLL_INTERVAL_MS is.                        *)
(***************************************************************************)
EXTENDS Integers, Sequences, FiniteSets, TLC

VARIABLES
    parent,      \* state of the directory that holds SOCK_PATH
    path,        \* the filesystem object found at SOCK_PATH
    pc,          \* pc[i]: where instance i is in the script
    sock,        \* sock[i]: state of the module-level socket `sock`
    queue,       \* queue[i]: datagrams queued in the kernel on sock[i]
    data,        \* data[i]: outcome of recvfrom inside a running poll_socket
    text,        \* text[i]: text of the Label
    window,      \* window[i]: the Tk root window exists
    timers,      \* timers[i]: pending root.after(POLL_INTERVAL_MS, poll_socket)
    status,      \* status[i]: exit status, meaningful once pc[i] = "exited"
    stderr,      \* stderr[i]: message printed before sys.exit(1)
    recvFailed,  \* recvFailed[i]: recvfrom raised an OSError that is not
                 \* BlockingIOError; Tk reported it and dropped the callback
    recovery,    \* recovery[i]: instance i started on a leftover path while
                 \* every other instance had terminated (history)
    sent         \* number of datagrams the producer has sent so far

vars == <<parent, path, pc, sock, queue, data, text, window, timers, status,
          stderr, recvFailed, recovery, sent>>

-----------------------------------------------------------------------------
(* Bounds of the model *)

\* datagrams the producer sends in one behaviour
MaxSent == 3
\* datagrams the kernel queues on one socket before a send is refused
MaxQueue == 2

\* the processes started on SOCK_PATH: a running instance and a second one
\* started on the same path
Instances == {1, 2}

-----------------------------------------------------------------------------
(* Program constants *)

\* recvfrom(1024)
RecvBufSize == 1024
\* len(data) == 24, struct.calcsize("<Q i I I I")
RecordLen == 24

-----------------------------------------------------------------------------
(* struct.unpack("<Q i I I I", data) *)

RECURSIVE LEUnsigned(_)
\* little-endian unsigned integer held in a sequence of bytes
LEUnsigned(bytes) ==
    IF bytes = <<>> THEN 0
    ELSE Head(bytes) + 256 * LEUnsigned(Tail(bytes))

\* little-endian two's complement integer held in a sequence of bytes
LESigned(bytes) ==
    LET n  == Len(bytes)
        hi == bytes[n]
    IN  LEUnsigned(SubSeq(bytes, 1, n - 1) \o
                   <<IF hi >= 128 THEN hi - 256 ELSE hi>>)

\* an unpack with the ok and retry counters in each other's place
UnpackBug_FieldOrder(bytes) ==
    [ts_ns |-> LEUnsigned(SubSeq(bytes, 1, 8)),
     rssi  |-> LESigned(SubSeq(bytes, 9, 12)),
     ok    |-> LEUnsigned(SubSeq(bytes, 17, 20)),
     retry |-> LEUnsigned(SubSeq(bytes, 13, 16)),
     fail  |-> LEUnsigned(SubSeq(bytes, 21, 24))]

\* the five fields of a 24-byte record
Unpack(bytes) ==
    [ts_ns |-> LEUnsigned(SubSeq(bytes, 1, 8)),
     rssi  |-> LESigned(SubSeq(bytes, 9, 12)),
     ok    |-> LEUnsigned(SubSeq(bytes, 13, 16)),
     retry |-> LEUnsigned(SubSeq(bytes, 17, 20)),
     fail  |-> LEUnsigned(SubSeq(bytes, 21, 24))]

RECURSIVE LEBytes(_, _)
\* struct.pack of one integer: `width` little-endian bytes of n
LEBytes(n, width) ==
    IF width = 0 THEN <<>>
    ELSE <<n % 256>> \o LEBytes(n \div 256, width - 1)

\* struct.pack("<Q i I I I", ...): the producer's encoding of a sample
Pack(ts_ns, rssi, ok, retry, fail) ==
    LEBytes(ts_ns, 8) \o LEBytes(rssi, 4) \o LEBytes(ok, 4)
        \o LEBytes(retry, 4) \o LEBytes(fail, 4)

-----------------------------------------------------------------------------
(* Derived metrics and the label text *)

\* n / d rounded to the nearest integer, ties to even (d > 0, n >= 0):
\* the value printed by a fixed-point format of the quotient. On an exact
\* tie the printed digit depends on the binary value of the float; no input
\* of the model is a tie.
RoundDiv(n, d) ==
    LET q == n \div d
        r == n % d
    IN  IF 2 * r > d \/ (2 * r = d /\ q % 2 = 1) THEN q + 1 ELSE q

\* an efficiency whose total leaves the retries out
EfficiencyBug_NoRetry(ok, retry, fail) ==
    LET total == ok + fail
    IN  IF total # 0 THEN RoundDiv(10000 * ok, total) ELSE 0

\* eff = (ok / total) * 100 if total else 0.0, as printed by {eff:0.2f}:
\* hundredths of a percent
Efficiency(ok, retry, fail) ==
    LET total == ok + retry + fail
    IN  IF total # 0 THEN RoundDiv(10000 * ok, total) ELSE 0

\* a signal percent capped at 100 but not floored at 0
SignalPctBug_NoFloor(rssi) ==
    LET signal_pct == 2 * (rssi + 100)
    IN  IF signal_pct > 100 THEN 100 ELSE signal_pct

\* signal_pct = 2 * (rssi + 100), clamped to 0..100
SignalPct(rssi) ==
    LET signal_pct == 2 * (rssi + 100)
        capped     == IF signal_pct > 100 THEN 100 ELSE signal_pct
    IN  IF capped < 0 THEN 0 ELSE capped

\* the text of the Label before any sample
Waiting == [shown |-> "Waiting for data..."]
\* there is no Label
NoLabel == [shown |-> "none"]

\* label_text: the numbers the four lines of the label show, computed from
\* the unpacked sample s
\*   Time: {ts_s:.3f} s            time_ms, thousandths of a second
\*   RSSI: {rssi} dBm ({signal_pct:.0f} %)
\*   OK: {ok}   Retry: {retry}   Fail: {fail}
\*   Eff: {eff:0.2f} %             eff, hundredths of a percent
LabelText(s) ==
    [shown      |-> "sample",
     time_ms    |-> RoundDiv(s.ts_ns, 1000000),
     rssi       |-> s.rssi,
     signal_pct |-> SignalPct(s.rssi),
     ok         |-> s.ok,
     retry      |-> s.retry,
     fail       |-> s.fail,
     eff        |-> Efficiency(s.ok, s.retry, s.fail)]

-----------------------------------------------------------------------------
(* The socket and what the producer sends *)

\* data[i] when poll_socket is not running
NoData == [kind |-> "none", bytes |-> <<>>]
\* recvfrom raised BlockingIOError
WouldBlock == [kind |-> "blocking", bytes |-> <<>>]
\* recvfrom returned the bytes b
Received(b) == [kind |-> "bytes", bytes |-> b]

\* n bytes of zeros
Zeros(n) == [k \in 1..n |-> 0]

\* the sample of the producer's documentation: 1.000 s, -60 dBm, 90/8/2
SampleA == Pack(1000000000, -60, 90, 8, 2)
\* 1.5004 s, -45 dBm (above the 100 % mark), 80/15/5: the tail of Oversized
SampleB == Pack(1500400000, -45, 80, 15, 5)
\* an idle report, RSSI below the 0 % mark
SampleC == Pack(0, -120, 0, 0, 0)
\* a record cut one byte short
Short23 == SubSeq(SampleA, 1, 23)
\* 30 bytes that begin like a record
Garbage30 == SampleA \o <<255, 255, 255, 255, 255, 255>>
\* more than the receive buffer takes, ending in a well-formed record
Oversized == Zeros(RecvBufSize) \o SampleB

\* what the producer may send
Datagrams == {SampleA, SampleC, Short23, Garbage30, Oversized}

\* a receive that leaves the bytes beyond bufsize queued, as a stream
\* socket would
RecvFromBug_Stream(q, bufsize) ==
    IF q = <<>> THEN [data |-> WouldBlock, rest |-> q]
    ELSE LET d == Head(q)
         IN  IF Len(d) > bufsize
             THEN [data |-> Received(SubSeq(d, 1, bufsize)),
                   rest |-> <<SubSeq(d, bufsize + 1, Len(d))>> \o Tail(q)]
             ELSE [data |-> Received(d), rest |-> Tail(q)]

\* a receive that takes the newest queued datagram and leaves the older ones
RecvFromBug_Newest(q, bufsize) ==
    IF q = <<>> THEN [data |-> WouldBlock, rest |-> q]
    ELSE LET d == q[Len(q)]
         IN  [data |-> Received(IF Len(d) > bufsize THEN SubSeq(d, 1, bufsize) ELSE d),
              rest |-> SubSeq(q, 1, Len(q) - 1)]

\* a receive loop that empties the queue and keeps the last datagram read
RecvFromBug_Drain(q, bufsize) ==
    IF q = <<>> THEN [data |-> WouldBlock, rest |-> q]
    ELSE LET d == q[Len(q)]
         IN  [data |-> Received(IF Len(d) > bufsize THEN SubSeq(d, 1, bufsize) ELSE d),
              rest |-> <<>>]

\* sock.recvfrom(bufsize) on a non-blocking SOCK_DGRAM socket whose queue is
\* q: BlockingIOError when nothing is queued, else the oldest datagram, cut
\* to bufsize bytes; the datagram leaves the queue whole
RecvFrom(q, bufsize) ==
    IF q = <<>> THEN [data |-> WouldBlock, rest |-> q]
    ELSE LET d == Head(q)
         IN  [data |-> Received(IF Len(d) > bufsize THEN SubSeq(d, 1, bufsize) ELSE d),
              rest |-> Tail(q)]

\* a label that keeps the larger of the OK counts shown and received
NextTextBug_History(old, d) ==
    IF d.kind = "bytes" /\ Len(d.bytes) = RecordLen
    THEN LET s == Unpack(d.bytes)
         IN  IF old.shown = "sample" /\ old.ok > s.ok
             THEN [LabelText(s) EXCEPT !.ok = old.ok]
             ELSE LabelText(s)
    ELSE old

\* a label that falls back to the placeholder when nothing was received
NextTextBug_ClearOnIdle(old, d) ==
    IF d.kind = "bytes" /\ Len(d.bytes) = RecordLen
    THEN LabelText(Unpack(d.bytes))
    ELSE IF d.kind = "blocking" THEN Waiting ELSE old

\* lines 74-102 of poll_socket: the label text after the cycle, from the text
\* shown before and the outcome d of recvfrom
NextText(old, d) ==
    IF d.kind = "bytes" /\ Len(d.bytes) = RecordLen
    THEN LabelText(Unpack(d.bytes))
    ELSE old

-----------------------------------------------------------------------------
(* The filesystem object at SOCK_PATH *)

NoEntry == [kind |-> "none", owner |-> 0]
\* a regular file
FileEntry == [kind |-> "file", owner |-> 0]
\* a directory: os.unlink refuses it
DirEntry == [kind |-> "dir", owner |-> 0]
\* a socket file bound by instance i; owner 0 is a process that died before
\* the behaviour starts
SocketEntry(i) == [kind |-> "socket", owner |-> i]

\* os.path.isfile(SOCK_PATH) in place of os.path.exists: a socket file is
\* no regular file
PathExistsBug_IsFile == path.kind = "file"

\* os.path.exists(SOCK_PATH)
PathExists == path.kind # "none"

\* os.unlink(SOCK_PATH) succeeds: the directory is writable and the path names
\* something that is not a directory
CanUnlink == parent = "ok" /\ path.kind \in {"socket", "file"}

\* sock.bind(SOCK_PATH) succeeds: the directory is writable and nothing is at
\* the path (else EADDRINUSE, ENOENT or EACCES)
CanBind == parent = "ok" /\ path.kind = "none"

\* instance i is a running process
Live(i) == pc[i] \notin {"exited", "killed"}

-----------------------------------------------------------------------------
(* Initial state *)

Init ==
    /\ parent \in {"ok", "missing", "readonly"}
    /\ path \in IF parent = "missing" THEN {NoEntry}
                ELSE {NoEntry, FileEntry, DirEntry, SocketEntry(0)}
    /\ pc = [i \in Instances |-> "start"]
    /\ sock = [i \in Instances |-> "none"]
    /\ queue = [i \in Instances |-> <<>>]
    /\ data = [i \in Instances |-> NoData]
    /\ text = [i \in Instances |-> NoLabel]
    /\ window = [i \in Instances |-> FALSE]
    /\ timers = [i \in Instances |-> 0]
    /\ status = [i \in Instances |-> 0]
    /\ stderr = [i \in Instances |-> ""]
    /\ recvFailed = [i \in Instances |-> FALSE]
    /\ recovery = [i \in Instances |-> FALSE]
    /\ sent = 0

-----------------------------------------------------------------------------
(* Startup: lines 18-55, 109, 123, 126 *)

\* line 19: if os.path.exists(SOCK_PATH)
Exists(i) ==
    /\ pc[i] = "start"
    /\ pc' = [pc EXCEPT ![i] = IF PathExists THEN "unlink" ELSE "bind"]
    /\ recovery' = [recovery EXCEPT ![i] =
                       /\ parent = "ok"
                       /\ path.kind \in {"socket", "file"}
                       /\ \A j \in Instances \ {i} : ~Live(j)]
    /\ UNCHANGED <<parent, path, sock, queue, data, text, window, timers,
                   status, stderr, recvFailed, sent>>

\* an unlink whose OSError is swallowed: the script goes on to bind
UnlinkBug_Swallow(i) ==
    /\ pc[i] = "unlink"
    /\ path' = IF CanUnlink THEN NoEntry ELSE path
    /\ pc' = [pc EXCEPT ![i] = "bind"]
    /\ UNCHANGED <<parent, sock, queue, data, text, window, timers, status,
                   stderr, recvFailed, recovery, sent>>

\* lines 20-24: os.unlink(SOCK_PATH); an OSError is fatal
Unlink(i) ==
    /\ pc[i] = "unlink"
    /\ IF CanUnlink
       THEN /\ path' = NoEntry
            /\ pc' = [pc EXCEPT ![i] = "bind"]
            /\ UNCHANGED <<status, stderr>>
       ELSE /\ stderr' = [stderr EXCEPT ![i] = "Could not unlink"]
            /\ status' = [status EXCEPT ![i] = 1]
            /\ pc' = [pc EXCEPT ![i] = "exited"]
            /\ UNCHANGED path
    /\ UNCHANGED <<parent, sock, queue, data, text, window, timers,
                   recvFailed, recovery, sent>>

\* lines 27-35: socket(), bind(SOCK_PATH), setblocking(False); an OSError
\* from bind is fatal, and the exit closes the unbound socket
Bind(i) ==
    /\ pc[i] = "bind"
    /\ IF CanBind
       THEN /\ path' = SocketEntry(i)
            /\ sock' = [sock EXCEPT ![i] = "bound"]
            /\ pc' = [pc EXCEPT ![i] = "gui"]
            /\ UNCHANGED <<status, stderr>>
       ELSE /\ sock' = [sock EXCEPT ![i] = "closed"]
            /\ stderr' = [stderr EXCEPT ![i] = "Failed to bind"]
            /\ status' = [status EXCEPT ![i] = 1]
            /\ pc' = [pc EXCEPT ![i] = "exited"]
            /\ UNCHANGED path
    /\ UNCHANGED <<parent, queue, data, text, window, timers,
                   recvFailed, recovery, sent>>

\* lines 39-55, 109, 123, 126: the window, the label, the first
\* root.after(POLL_INTERVAL_MS, poll_socket), then mainloop()
Gui(i) ==
    /\ pc[i] = "gui"
    /\ window' = [window EXCEPT ![i] = TRUE]
    /\ text' = [text EXCEPT ![i] = Waiting]
    /\ timers' = [timers EXCEPT ![i] = @ + 1]
    /\ pc' = [pc EXCEPT ![i] = "idle"]
    /\ UNCHANGED <<parent, path, sock, queue, data, status, stderr,
                   recvFailed, recovery, sent>>

-----------------------------------------------------------------------------
(* poll_socket: lines 58-105 *)

\* a poll_socket that schedules the next poll before it receives
PollRecvBug_RearmFirst(i, oserror) ==
    /\ pc[i] = "idle"
    /\ timers[i] > 0
    /\ IF oserror
       THEN /\ recvFailed' = [recvFailed EXCEPT ![i] = TRUE]
            /\ UNCHANGED <<pc, queue, data>>
       ELSE LET r == RecvFrom(queue[i], RecvBufSize)
            IN  /\ data' = [data EXCEPT ![i] = r.data]
                /\ queue' = [queue EXCEPT ![i] = r.rest]
                /\ pc' = [pc EXCEPT ![i] = "polling"]
                /\ UNCHANGED recvFailed
    /\ UNCHANGED <<parent, path, sock, text, window, timers, status, stderr,
                   recovery, sent>>

\* the timer fires and poll_socket runs up to the end of its try statement
\* (lines 69-73). `oserror` is the environment's choice to fail the receive
\* with an OSError other than BlockingIOError: nothing in poll_socket catches
\* it, so it leaves the callback, Tk's report_callback_exception prints it
\* and mainloop goes on without line 105 having run.
PollRecv(i, oserror) ==
    /\ pc[i] = "idle"
    /\ timers[i] > 0
    /\ timers' = [timers EXCEPT ![i] = @ - 1]
    /\ IF oserror
       THEN /\ recvFailed' = [recvFailed EXCEPT ![i] = TRUE]
            /\ UNCHANGED <<pc, queue, data>>
       ELSE LET r == RecvFrom(queue[i], RecvBufSize)
            IN  /\ data' = [data EXCEPT ![i] = r.data]
                /\ queue' = [queue EXCEPT ![i] = r.rest]
                /\ pc' = [pc EXCEPT ![i] = "polling"]
                /\ UNCHANGED recvFailed
    /\ UNCHANGED <<parent, path, sock, text, window, status, stderr,
                   recovery, sent>>

\* a poll_socket that returns from its "unexpected length" branch before
\* scheduling the next poll
PollFinishBug_ReturnOnMalformed(i) ==
    /\ pc[i] = "polling"
    /\ text' = [text EXCEPT ![i] = NextText(@, data[i])]
    /\ timers' = [timers EXCEPT ![i] =
                     IF data[i].kind = "bytes" /\ Len(data[i].bytes) # RecordLen
                     THEN @ ELSE @ + 1]
    /\ data' = [data EXCEPT ![i] = NoData]
    /\ pc' = [pc EXCEPT ![i] = "idle"]
    /\ UNCHANGED <<parent, path, sock, queue, window, status, stderr,
                   recvFailed, recovery, sent>>

\* the rest of poll_socket (lines 74-105): the length check, unpack, the
\* label update, and root.after(POLL_INTERVAL_MS, poll_socket)
PollFinish(i) ==
    /\ pc[i] = "polling"
    /\ text' = [text EXCEPT ![i] = NextText(@, data[i])]
    /\ timers' = [timers EXCEPT ![i] = @ + 1]
    /\ data' = [data EXCEPT ![i] = NoData]
    /\ pc' = [pc EXCEPT ![i] = "idle"]
    /\ UNCHANGED <<parent, path, sock, queue, window, status, stderr,
                   recvFailed, recovery, sent>>

-----------------------------------------------------------------------------
(* Shutdown *)

\* an on_close that hides the window (root.withdraw()) where root.destroy()
\* should be: mainloop and its pending timer live on
OnCloseBug_Withdraw(i) ==
    /\ pc[i] = "idle"
    /\ sock' = [sock EXCEPT ![i] = "closed"]
    /\ queue' = [queue EXCEPT ![i] = <<>>]
    /\ path' = IF CanUnlink THEN NoEntry ELSE path
    /\ window' = [window EXCEPT ![i] = FALSE]
    /\ UNCHANGED <<parent, pc, data, text, timers, status, stderr,
                   recvFailed, recovery, sent>>

\* an on_close whose os.unlink is not wrapped in try/except: when the unlink
\* raises, root.destroy() is not reached and mainloop goes on
OnCloseBug_Propagate(i) ==
    /\ pc[i] = "idle"
    /\ sock' = [sock EXCEPT ![i] = "closed"]
    /\ queue' = [queue EXCEPT ![i] = <<>>]
    /\ IF CanUnlink
       THEN /\ path' = NoEntry
            /\ window' = [window EXCEPT ![i] = FALSE]
            /\ text' = [text EXCEPT ![i] = NoLabel]
            /\ timers' = [timers EXCEPT ![i] = 0]
            /\ status' = [status EXCEPT ![i] = 0]
            /\ pc' = [pc EXCEPT ![i] = "exited"]
       ELSE UNCHANGED <<path, window, text, timers, status, pc>>
    /\ UNCHANGED <<parent, data, stderr, recvFailed, recovery, sent>>

\* on_close (lines 112-121), run by mainloop between callbacks on
\* WM_DELETE_WINDOW: sock.close(), os.unlink(SOCK_PATH) with any error
\* swallowed, root.destroy(); mainloop returns and the script ends
OnClose(i) ==
    /\ pc[i] = "idle"
    /\ sock' = [sock EXCEPT ![i] = "closed"]
    /\ queue' = [queue EXCEPT ![i] = <<>>]
    /\ path' = IF CanUnlink THEN NoEntry ELSE path
    /\ window' = [window EXCEPT ![i] = FALSE]
    /\ text' = [text EXCEPT ![i] = NoLabel]
    /\ timers' = [timers EXCEPT ![i] = 0]
    /\ status' = [status EXCEPT ![i] = 0]
    /\ pc' = [pc EXCEPT ![i] = "exited"]
    /\ UNCHANGED <<parent, data, stderr, recvFailed, recovery, sent>>

\* the process is killed (SIGKILL, power loss): no handler runs, the kernel
\* closes the socket, the path stays
Kill(i) ==
    /\ Live(i)
    /\ pc' = [pc EXCEPT ![i] = "killed"]
    /\ sock' = [sock EXCEPT ![i] = IF @ = "bound" THEN "closed" ELSE @]
    /\ queue' = [queue EXCEPT ![i] = <<>>]
    /\ data' = [data EXCEPT ![i] = NoData]
    /\ window' = [window EXCEPT ![i] = FALSE]
    /\ text' = [text EXCEPT ![i] = NoLabel]
    /\ timers' = [timers EXCEPT ![i] = 0]
    /\ UNCHANGED <<parent, path, status, stderr, recvFailed, recovery, sent>>

-----------------------------------------------------------------------------
(* The producer *)

\* the instance whose socket a datagram sent to SOCK_PATH reaches: the one
\* that bound the socket file now at the path, while its socket is open
Receivers ==
    {i \in Instances : path = SocketEntry(i) /\ sock[i] = "bound"}

\* sendto(d, SOCK_PATH) by the producer, queued on the receiving socket; a
\* send that is refused (nobody bound, queue full) changes nothing here
Send(d) ==
    /\ sent < MaxSent
    /\ \E i \in Receivers :
          /\ Len(queue[i]) < MaxQueue
          /\ queue' = [queue EXCEPT ![i] = Append(@, d)]
    /\ sent' = sent + 1
    /\ UNCHANGED <<parent, path, pc, sock, data, text, window, timers,
                   status, stderr, recvFailed, recovery>>

-----------------------------------------------------------------------------

Next ==
    \/ \E i \in Instances : Exists(i)
    \/ \E i \in Instances : Unlink(i)
    \/ \E i \in Instances : Bind(i)
    \/ \E i \in Instances : Gui(i)
    \/ \E i \in Instances : \E oserror \in BOOLEAN : PollRecv(i, oserror)
    \/ \E i \in Instances : PollFinish(i)
    \/ \E i \in Instances : OnClose(i)
    \/ \E i \in Instances : Kill(i)
    \/ \E d \in Datagrams : Send(d)

Spec == Init /\ [][Next]_vars

-----------------------------------------------------------------------------
(* One instance left to run on its own: no receive error, no close request,
   no kill, no second process.  The interpreter runs the script on to
   mainloop(), and Tk's mainloop fires a pending timer and lets a running
   callback finish: weak fairness of the startup steps and of the two
   halves of poll_socket.  The producer is under no obligation to send. *)

\* the instance that runs
Running == {1}

NextLive ==
    \/ \E i \in Running : Exists(i)
    \/ \E i \in Running : Unlink(i)
    \/ \E i \in Running : Bind(i)
    \/ \E i \in Running : Gui(i)
    \/ \E i \in Running : PollRecv(i, FALSE)
    \/ \E i \in Running : PollFinish(i)
    \/ \E d \in Datagrams : Send(d)

Fairness ==
    \A i \in Running :
        /\ WF_vars(Exists(i)) /\ WF_vars(Unlink(i))
        /\ WF_vars(Bind(i)) /\ WF_vars(Gui(i))
        /\ WF_vars(PollRecv(i, FALSE)) /\ WF_vars(PollFinish(i))

SpecLive == Init /\ [][NextLive]_vars /\ Fairness

-----------------------------------------------------------------------------
(* Decoding and metrics on their own: one poll cycle that holds a 24-byte
   datagram, for every combination of the field encodings below.  TLC's
   integers are 32 bits wide, so every field stays below 2^31 and RSSI
   within +-10^9; Python's integers do not overflow. *)

\* timestamp_ns: 0, 10^9, 1500400000, 2^31 - 1
TsBytes ==
    {<<0, 0, 0, 0, 0, 0, 0, 0>>, <<0, 202, 154, 59, 0, 0, 0, 0>>,
     <<128, 73, 110, 89, 0, 0, 0, 0>>, <<255, 255, 255, 127, 0, 0, 0, 0>>}

\* rssi_dbm: -101, -100, -99, -75, -60, -51, -50, -49, -1, 0, 1, -10^9, 10^9
RssiBytes ==
    {<<b, 255, 255, 255>> : b \in {155, 156, 157, 181, 196, 205, 206, 207, 255}}
        \cup {<<0, 0, 0, 0>>, <<1, 0, 0, 0>>, <<0, 54, 101, 196>>, <<0, 202, 154, 59>>}

\* ok_count: 0, 1, 80, 90, 200000
OkBytes ==
    {<<0, 0, 0, 0>>, <<1, 0, 0, 0>>, <<80, 0, 0, 0>>, <<90, 0, 0, 0>>,
     <<64, 13, 3, 0>>}

\* retry_count: 0, 8, 15
RetryBytes == {<<0, 0, 0, 0>>, <<8, 0, 0, 0>>, <<15, 0, 0, 0>>}

\* fail_count: 0, 2, 5, 256
FailBytes == {<<0, 0, 0, 0>>, <<2, 0, 0, 0>>, <<5, 0, 0, 0>>, <<0, 1, 0, 0>>}

\* the 24-byte datagrams made of these encodings
Records ==
    {t \o r \o o \o y \o f :
        t \in TsBytes, r \in RssiBytes, o \in OkBytes, y \in RetryBytes,
        f \in FailBytes}

\* instance 1 is inside poll_socket with a 24-byte datagram received, its
\* label still the placeholder; instance 2 has not started
InitDecode ==
    /\ parent = "ok"
    /\ path = SocketEntry(1)
    /\ pc = [i \in Instances |-> IF i = 1 THEN "polling" ELSE "start"]
    /\ sock = [i \in Instances |-> IF i = 1 THEN "bound" ELSE "none"]
    /\ queue = [i \in Instances |-> <<>>]
    /\ \E b \in Records :
          data = [i \in Instances |-> IF i = 1 THEN Received(b) ELSE NoData]
    /\ text = [i \in Instances |-> IF i = 1 THEN Waiting ELSE NoLabel]
    /\ window = [i \in Instances |-> i = 1]
    /\ timers = [i \in Instances |-> 0]
    /\ status = [i \in Instances |-> 0]
    /\ stderr = [i \in Instances |-> ""]
    /\ recvFailed = [i \in Instances |-> FALSE]
    /\ recovery = [i \in Instances |-> FALSE]
    /\ sent = 1

NextDecode == \E i \in Instances : PollFinish(i)

SpecDecode == InitDecode /\ [][NextDecode]_vars

-----------------------------------------------------------------------------
(* Steps of one instance, as the properties below name them *)

\* instance i's poll_socket starts and its receive does not fail
StartsPoll(i) == pc[i] = "idle" /\ pc'[i] = "polling"
\* instance i's poll_socket returns
EndsPoll(i) == pc[i] = "polling" /\ pc'[i] = "idle"
\* the first n bytes of d, all of d when it is shorter
FirstBytes(d, n) == SubSeq(d, 1, IF Len(d) < n THEN Len(d) ELSE n)
\* instance i left the script through sys.exit(1)
FailedStartup(i) == pc[i] = "exited" /\ status[i] = 1

-----------------------------------------------------------------------------
(* C1 *)

\* C1: at no time do two live instances both hold a successful bind of
\* SOCK_PATH (a second instance started on the path of a running one fails
\* at bind and never polls).
C1_PathExclusive ==
    \A a, b \in Instances :
        a # b => ~(Live(a) /\ sock[a] = "bound" /\ Live(b) /\ sock[b] = "bound")

-----------------------------------------------------------------------------
(* C2 *)

\* C2: a receive failure other than would-block is not fatal to the loop:
\* once it has happened and the callback is over, the next tick is scheduled.
C2_RecvErrorNotFatal ==
    \A i \in Instances :
        (recvFailed[i] /\ pc[i] = "idle") => timers[i] = 1

-----------------------------------------------------------------------------
(* C3 *)

\* C3: a datagram whose length is not 24 is consumed whole by the poll
\* cycle that receives it (the queue loses exactly that datagram and what
\* the cycle holds is not 24 bytes long either); the cycle leaves the label
\* text as it was, raises nothing, and schedules the next tick.
C3_MalformedDiscarded ==
    [][\A i \in Instances :
          /\ (StartsPoll(i) /\ queue[i] # <<>> /\ Len(Head(queue[i])) # RecordLen)
                => /\ queue'[i] = Tail(queue[i])
                   /\ data'[i].kind = "bytes"
                   /\ Len(data'[i].bytes) # RecordLen
                   /\ text'[i] = text[i]
          /\ (EndsPoll(i) /\ data[i].kind = "bytes" /\ Len(data[i].bytes) # RecordLen)
                => /\ text'[i] = text[i]
                   /\ queue'[i] = queue[i]
                   /\ recvFailed'[i] = recvFailed[i]
                   /\ window'[i]
                   /\ timers'[i] = 1]_vars

\* a cycle holds the 1024 bytes left of an oversized datagram while a sample
\* is on display
C3_Witness ==
    \E i \in Instances :
        /\ pc[i] = "polling"
        /\ data[i].kind = "bytes"
        /\ Len(data[i].bytes) = RecvBufSize
        /\ text[i].shown = "sample"

-----------------------------------------------------------------------------
(* C4 *)

\* C4: at most one poll timer is pending, and none is pending while a poll
\* cycle is in progress.
C4_OneTimerNoOverlap ==
    \A i \in Instances :
        /\ timers[i] <= 1
        /\ pc[i] = "polling" => timers[i] = 0

\* a later cycle is in progress, after a cycle that displayed a sample
C4_Witness ==
    \E i \in Instances :
        pc[i] = "polling" /\ text[i].shown = "sample" /\ timers[i] = 0

-----------------------------------------------------------------------------
(* C5 *)

\* C5: while its socket stays open, the queue of an instance loses
\* datagrams only at the start of a poll cycle, one per consumed tick: the
\* oldest one.
C5_OneRecvPerTick ==
    [][\A i \in Instances :
          (sock[i] = "bound" /\ sock'[i] = "bound" /\ Len(queue'[i]) < Len(queue[i]))
             => /\ StartsPoll(i)
                /\ timers'[i] = timers[i] - 1
                /\ Len(queue'[i]) = Len(queue[i]) - 1]_vars

\* a cycle has taken one datagram and a backlog is still queued
C5_Witness ==
    \E i \in Instances :
        pc[i] = "polling" /\ data[i].kind = "bytes" /\ queue[i] # <<>>

-----------------------------------------------------------------------------
(* C6 *)

\* C6 as stated: with a backlog queued, the datagram a tick takes to render
\* is the most recent one queued as of that tick.
C6_NewestRendered ==
    [][\A i \in Instances :
          (StartsPoll(i) /\ queue[i] # <<>>)
             => data'[i].bytes = FirstBytes(queue[i][Len(queue[i])], RecvBufSize)]_vars

\* C6 amended: with a backlog queued, a tick takes the oldest queued
\* datagram and renders it when it is 24 bytes long; the newer ones stay
\* queued in arrival order for the following ticks.
C6_OldestFirst ==
    [][\A i \in Instances :
          /\ (StartsPoll(i) /\ queue[i] # <<>>)
                => /\ data'[i].bytes = FirstBytes(Head(queue[i]), RecvBufSize)
                   /\ queue'[i] = Tail(queue[i])
          /\ (EndsPoll(i) /\ data[i].kind = "bytes" /\ Len(data[i].bytes) = RecordLen)
                => /\ text'[i].shown = "sample"
                   /\ text'[i].ok = LEUnsigned(SubSeq(data[i].bytes, 13, 16))]_vars

\* a cycle holds the older of two different queued datagrams, the newer one
\* is still queued
C6_Witness ==
    \E i \in Instances :
        /\ pc[i] = "polling"
        /\ data[i].kind = "bytes"
        /\ queue[i] # <<>>
        /\ Head(queue[i]) # data[i].bytes
        /\ Len(Head(queue[i])) = RecordLen

-----------------------------------------------------------------------------
(* C7 *)

\* C7: a tick that finds nothing queued does nothing further: the receive
\* reports would-block, and the cycle leaves the label text, the socket, its
\* queue and the path as they were, raises nothing, and schedules the next
\* tick.
C7_NoDataNoEffect ==
    [][\A i \in Instances :
          /\ (StartsPoll(i) /\ queue[i] = <<>>)
                => /\ data'[i] = WouldBlock
                   /\ text'[i] = text[i]
                   /\ sock'[i] = sock[i]
                   /\ queue'[i] = <<>>
          /\ (EndsPoll(i) /\ data[i] = WouldBlock)
                => /\ text'[i] = text[i]
                   /\ sock'[i] = sock[i]
                   /\ queue'[i] = queue[i]
                   /\ path' = path
                   /\ recvFailed'[i] = recvFailed[i]
                   /\ window'[i]
                   /\ timers'[i] = 1]_vars

\* a tick found nothing queued while a sample is on display
C7_Witness ==
    \E i \in Instances :
        pc[i] = "polling" /\ data[i] = WouldBlock /\ text[i].shown = "sample"

-----------------------------------------------------------------------------
(* C8 *)

\* C8: a poll cycle that received a 24-byte datagram leaves a label text
\* that is determined by the five fields of that datagram alone, whatever
\* was shown before.
C8_SampleReplacesDisplay ==
    [][\A i \in Instances :
          (EndsPoll(i) /\ data[i].kind = "bytes" /\ Len(data[i].bytes) = RecordLen)
             => text'[i] = LabelText(Unpack(data[i].bytes))]_vars

\* a cycle holds a valid sample while the label shows a different sample
C8_Witness ==
    \E i \in Instances :
        /\ pc[i] = "polling"
        /\ data[i] = Received(SampleC)
        /\ text[i] = LabelText(Unpack(SampleA))

-----------------------------------------------------------------------------
(* C9 *)

\* C9: a kill leaves the path as it is; an instance that starts on a
\* leftover socket or file when every other instance has terminated never
\* fails its startup: it removes the object, binds the path itself, and
\* runs the polling loop on its own socket.
C9_CrashRecovery ==
    /\ [][\A i \in Instances : (Live(i) /\ pc'[i] = "killed") => path' = path]_vars
    /\ [](\A i \in Instances :
             recovery[i] =>
                /\ ~FailedStartup(i)
                /\ pc[i] # "start"
                /\ pc[i] = "unlink" => path.kind \in {"socket", "file"}
                /\ pc[i] = "bind" => path = NoEntry
                /\ pc[i] \in {"gui", "idle", "polling"}
                      => sock[i] = "bound" /\ path = SocketEntry(i)
                /\ pc[i] \in {"idle", "polling"} => window[i])

\* an instance was killed while bound; the other one started afterwards on
\* the socket file left behind and is in its polling loop
C9_Witness ==
    \E i, j \in Instances :
        /\ pc[j] = "killed" /\ sock[j] = "closed"
        /\ recovery[i]
        /\ pc[i] = "idle" /\ timers[i] = 1
        /\ path = SocketEntry(i)

-----------------------------------------------------------------------------
(* C10 *)

\* C10: an unlink that fails ends the process with status 1 and no socket;
\* a bind that fails ends it with status 1 and no bound socket; a process
\* that ended this way has no window, no label and no poll scheduled.
C10_FatalStartup ==
    /\ [][\A i \in Instances :
             /\ (pc[i] = "unlink" /\ pc'[i] \notin {"unlink", "killed"} /\ ~CanUnlink)
                   => /\ FailedStartup(i)'
                      /\ sock'[i] = "none"
                      /\ path' = path
             /\ (pc[i] = "bind" /\ pc'[i] \notin {"bind", "killed"} /\ ~CanBind)
                   => /\ FailedStartup(i)'
                      /\ sock'[i] # "bound"
                      /\ path' = path]_vars
    /\ [](\A i \in Instances :
             FailedStartup(i) =>
                /\ ~window[i]
                /\ text[i] = NoLabel
                /\ timers[i] = 0
                /\ sock[i] # "bound"
                /\ path # SocketEntry(i)
                /\ stderr[i] \in {"Could not unlink", "Failed to bind"}
                /\ stderr[i] = "Could not unlink" => sock[i] = "none")

\* an instance lost the race for the path and failed at bind while the
\* other one is in its polling loop
C10_Witness ==
    \E i, j \in Instances :
        /\ FailedStartup(i) /\ stderr[i] = "Failed to bind"
        /\ pc[j] = "idle" /\ path = SocketEntry(j)

-----------------------------------------------------------------------------
(* C11 *)

\* instance i's close handler runs: its open socket is closed by a step that
\* is not a kill
Closes(i) == sock[i] = "bound" /\ sock'[i] = "closed" /\ pc'[i] # "killed"

\* C11: the close handler closes the socket, tries to remove the path, and
\* always destroys the window and ends the process with status 0, whether
\* the removal succeeds or fails; a removal that can succeed leaves nothing
\* at the path, one that fails leaves the path as it is.
C11_CleanShutdown ==
    [][\A i \in Instances :
          Closes(i) =>
             /\ pc'[i] = "exited"
             /\ status'[i] = 0
             /\ stderr'[i] = ""
             /\ ~window'[i]
             /\ timers'[i] = 0
             /\ (parent = "ok" /\ path.kind \in {"socket", "file"}) => path' = NoEntry
             /\ (parent # "ok" \/ path.kind \notin {"socket", "file"}) => path' = path]_vars

\* both instances shut down cleanly: the second removal found nothing at the
\* path, and that failure was swallowed
C11_Witness ==
    /\ \A i \in Instances : pc[i] = "exited" /\ status[i] = 0 /\ sock[i] = "closed"
    /\ path = NoEntry

-----------------------------------------------------------------------------
(* The fields of a buffer by position, for C12-C14 *)

\* the unsigned 32-bit little-endian integer at byte offset off of b
U32At(b, off) ==
    b[off + 1] + 256 * b[off + 2] + 65536 * b[off + 3] + 16777216 * b[off + 4]
\* the signed 32-bit little-endian integer at byte offset off of b
S32At(b, off) ==
    b[off + 1] + 256 * b[off + 2] + 65536 * b[off + 3]
        + 16777216 * (IF b[off + 4] >= 128 THEN b[off + 4] - 256 ELSE b[off + 4])
\* instance i's poll_socket returns from a cycle that holds a 24-byte datagram
EndsValidPoll(i) ==
    EndsPoll(i) /\ data[i].kind = "bytes" /\ Len(data[i].bytes) = RecordLen

-----------------------------------------------------------------------------
(* C12 *)

\* C12: the signal percent shown for a record is 0 when its RSSI is at most
\* -100, 100 when it is at least -50, and 2 * (rssi + 100) in between; it
\* lies in 0..100, and the record is shown whatever its RSSI.
C12_SignalPercent ==
    [][\A i \in Instances :
          EndsValidPoll(i) =>
             LET rssi == S32At(data[i].bytes, 8)
                 pct  == text'[i].signal_pct
             IN  /\ text'[i].shown = "sample"
                 /\ text'[i].rssi = rssi
                 /\ pct \in 0..100
                 /\ rssi <= -100 => pct = 0
                 /\ rssi >= -50 => pct = 100
                 /\ (rssi > -100 /\ rssi < -50) => pct = 2 * (rssi + 100)]_vars

\* a record with an RSSI far below the expected range is on display, at 0 %
C12_Witness ==
    \E i \in Instances :
        /\ text[i].shown = "sample"
        /\ text[i].rssi = -1000000000
        /\ text[i].signal_pct = 0

-----------------------------------------------------------------------------
(* C13 *)

\* C13: the efficiency shown for a record, in hundredths of a percent, is
\* 0 when ok + retry + fail is 0 and otherwise 100 * ok / (ok + retry +
\* fail) to the nearest hundredth; it lies in 0..100 percent, and it is
\* 80.00 for ok = 80, retry = 15, fail = 5.
C13_Efficiency ==
    [][\A i \in Instances :
          EndsValidPoll(i) =>
             LET ok    == U32At(data[i].bytes, 12)
                 retry == U32At(data[i].bytes, 16)
                 fail  == U32At(data[i].bytes, 20)
                 total == ok + retry + fail
                 eff   == text'[i].eff
                 err   == eff * total - 10000 * ok
             IN  /\ eff \in 0..10000
                 /\ total = 0 => eff = 0
                 /\ total > 0 => (2 * err <= total /\ -2 * err <= total)
                 /\ (ok = 80 /\ retry = 15 /\ fail = 5) => eff = 8000]_vars

\* an all-idle report is on display with efficiency 0.00
C13_Witness ==
    \E i \in Instances :
        /\ text[i].shown = "sample"
        /\ text[i].ok = 0 /\ text[i].retry = 0 /\ text[i].fail = 0
        /\ text[i].eff = 0

-----------------------------------------------------------------------------
(* C14 *)

\* C14: a 24-byte buffer decodes into the timestamp at offset 0, the signed
\* RSSI at offset 8 and the unsigned counters at offsets 12, 16 and 20,
\* little-endian; the cycle shows these values, and packing the decoded
\* fields in the same layout gives back the buffer.
C14_DecodeRoundTrip ==
    [][\A i \in Instances :
          EndsValidPoll(i) =>
             LET b == data[i].bytes
                 s == Unpack(b)
             IN  /\ U32At(b, 4) = 0 => s.ts_ns = U32At(b, 0)
                 /\ s.rssi = S32At(b, 8)
                 /\ s.ok = U32At(b, 12)
                 /\ s.retry = U32At(b, 16)
                 /\ s.fail = U32At(b, 20)
                 /\ Pack(s.ts_ns, s.rssi, s.ok, s.retry, s.fail) = b
                 /\ text'[i].shown = "sample"
                 /\ text'[i].rssi = S32At(b, 8)
                 /\ text'[i].ok = U32At(b, 12)
                 /\ text'[i].retry = U32At(b, 16)
                 /\ text'[i].fail = U32At(b, 20)]_vars

\* a decoded record is on display: negative RSSI, three different counters
C14_Witness ==
    \E i \in Instances :
        /\ pc[i] = "idle"
        /\ text[i].shown = "sample"
        /\ text[i].time_ms = 1000
        /\ text[i].rssi = -60
        /\ text[i].ok = 200000 /\ text[i].retry = 15 /\ text[i].fail = 256

-----------------------------------------------------------------------------
(* C15 *)

\* C15: with no receive error and no shutdown, every poll cycle that starts
\* completes with the timer re-armed, and from the idle loop another poll
\* cycle always eventually starts.
C15_LoopNeverEnds ==
    \A i \in Instances :
        /\ (pc[i] = "polling") ~> (pc[i] = "idle" /\ timers[i] = 1)
        /\ (pc[i] = "idle") ~> (pc[i] = "polling")

\* a cycle is in progress, on a malformed datagram, after an earlier cycle
\* displayed a sample
C15_Witness ==
    \E i \in Instances :
        /\ pc[i] = "polling"
        /\ data[i].kind = "bytes" /\ Len(data[i].bytes) # RecordLen
        /\ text[i].shown = "sample"

-----------------------------------------------------------------------------
(* What is queued and what is shown, for C16-C19 *)

\* the datagrams the producer may send that are 24 bytes long
ValidDatagrams == {d \in Datagrams : Len(d) = RecordLen}
\* what instance i has still to process: the datagram its running cycle
\* holds, then its queue
Pending(i) ==
    (IF data[i].kind = "bytes" THEN <<data[i].bytes>> ELSE <<>>) \o queue[i]
\* the positions of the 24-byte datagrams in q
ValidIdx(q) == {k \in 1..Len(q) : Len(q[k]) = RecordLen}
\* the last 24-byte datagram of q
LastValid(q) == q[CHOOSE k \in ValidIdx(q) : \A j \in ValidIdx(q) : j <= k]
\* instance i's label shows datagram d
Shows(i, d) ==
    /\ text[i].shown = "sample"
    /\ text[i].rssi = S32At(d, 8)
    /\ text[i].ok = U32At(d, 12)
    /\ text[i].retry = U32At(d, 16)
    /\ text[i].fail = U32At(d, 20)

-----------------------------------------------------------------------------
(* C16 *)

\* C16: when the close handler of an instance changes what is at the path,
\* what it removes is the socket file that instance bound itself.
C16_CloseRemovesOwnPath ==
    [][\A i \in Instances :
          (Closes(i) /\ path' # path) => path = SocketEntry(i)]_vars

-----------------------------------------------------------------------------
(* C17 *)

\* C17: once the socket of an instance is closed, the instance starts no
\* poll cycle, holds no received data, has no timer pending or re-armed,
\* and its label is gone and stays gone.
C17_NoPollAfterClose ==
    /\ [](\A i \in Instances :
             sock[i] = "closed" =>
                /\ pc[i] \in {"exited", "killed"}
                /\ timers[i] = 0
                /\ data[i] = NoData
                /\ ~window[i]
                /\ text[i] = NoLabel)
    /\ [][\A i \in Instances :
             sock[i] = "closed" =>
                /\ pc'[i] = pc[i]
                /\ sock'[i] = "closed"
                /\ queue'[i] = queue[i]
                /\ timers'[i] = 0
                /\ text'[i] = text[i]]_vars

\* an instance closed cleanly after it displayed a sample, while datagrams
\* were still queued on its socket: nothing of it is left
C17_Witness ==
    \E i \in Instances :
        /\ pc[i] = "exited" /\ status[i] = 0 /\ sock[i] = "closed"
        /\ sent = MaxSent
        /\ queue[i] = <<>> /\ timers[i] = 0

-----------------------------------------------------------------------------
(* C18 *)

\* C18: the label shows the placeholder or the rendering of a 24-byte
\* datagram that the running cycle took from the head of the queue; the
\* label changes only when the window is created or torn down or when such
\* a cycle ends, never from a sample back to the placeholder; the queue
\* grows only at its tail and shrinks only at its head, so samples are
\* shown in the order their datagrams were queued.
C18_DisplayProvenance ==
    /\ [](\A i \in Instances :
             /\ window[i] => text[i].shown \in {"Waiting for data...", "sample"}
             /\ ~window[i] => text[i] = NoLabel)
    /\ [][\A i \in Instances :
             /\ (window[i] /\ window'[i] /\ text'[i] # text[i])
                   => /\ EndsValidPoll(i)
                      /\ text'[i].shown = "sample"
                      /\ text'[i].rssi = S32At(data[i].bytes, 8)
                      /\ text'[i].ok = U32At(data[i].bytes, 12)
                      /\ text'[i].retry = U32At(data[i].bytes, 16)
                      /\ text'[i].fail = U32At(data[i].bytes, 20)
                      /\ text'[i].time_ms = RoundDiv(U32At(data[i].bytes, 0), 1000000)
             /\ (text[i].shown = "sample" /\ window'[i]) => text'[i].shown = "sample"
             /\ (~window[i] /\ window'[i]) => text'[i] = Waiting
             /\ (StartsPoll(i) /\ data'[i].kind = "bytes")
                   => /\ queue[i] # <<>>
                      /\ data'[i].bytes = FirstBytes(Head(queue[i]), RecvBufSize)
                      /\ queue'[i] = Tail(queue[i])
             /\ (sock'[i] = "bound" /\ queue'[i] # queue[i])
                   => \/ queue[i] # <<>> /\ queue'[i] = Tail(queue[i])
                      \/ \E d \in Datagrams : queue'[i] = Append(queue[i], d)]_vars

\* two valid records were queued in the order A, C: A is on display and C is
\* held by the running cycle
C18_Witness ==
    \E i \in Instances :
        /\ pc[i] = "polling"
        /\ Shows(i, SampleA)
        /\ data[i] = Received(SampleC)

-----------------------------------------------------------------------------
(* C19 *)

\* C19: under a fair timer, with no receive error and no shutdown, every
\* 24-byte datagram that is queued is eventually shown; once the producer
\* has stopped, the label comes to show the last 24-byte datagram still to
\* be processed and stays there, and with none left a label on display
\* never changes.
C19_EventualDisplay ==
    /\ \A i \in Instances : \A d \in ValidDatagrams :
          (\E k \in 1..Len(queue[i]) : queue[i][k] = d) ~> Shows(i, d)
    /\ \A i \in Instances : \A d \in ValidDatagrams :
          (sent = MaxSent /\ ValidIdx(Pending(i)) # {} /\ LastValid(Pending(i)) = d)
             ~> [](Shows(i, d))
    /\ [][\A i \in Instances :
             (window[i] /\ sent = MaxSent /\ ValidIdx(Pending(i)) = {})
                => text'[i] = text[i]]_vars

\* the producer has stopped, the queue is empty, and the label shows the
\* last record sent after having shown another one
C19_Witness ==
    \E i \in Instances :
        /\ sent = MaxSent
        /\ pc[i] = "idle" /\ queue[i] = <<>>
        /\ Shows(i, SampleC)

====
